---- MODULE Spec2Model ----
(***************************************************************************)
(* Task submission service (submitTask, cancelTask and the queue reads)    *)
(* of server/services/agentDiscoveryService.js, over the Redis store it    *)
(* shares with the Auto-Claude workers.                                    *)
(*                                                                         *)
(* Every await of the service is a suspension point: a call is a process   *)
(* that moves from one Redis command to the next, and the commands of      *)
(* concurrent calls (and of the worker) interleave.  Each Redis command    *)
(* is atomic and may fail, which throws out of the call.                   *)
(*                                                                         *)
(* In front of the service stands the Janua authentication middleware of   *)
(* server/middleware/janua-auth.js (the JWKS cache, the token verification *)
(* and the scope check), wired to the routes as the integration guide      *)
(* documents.  A request is a process too: it suspends at the JWKS fetch   *)
(* and at the token verification.                                          *)
(*                                                                         *)
(* The agent discovery half of the service joins, at read time, the pods   *)
(* the Kubernetes API lists with the state each agent reports in its       *)
(* Redis hash agent:<pod name>.                                            *)
(***************************************************************************)
EXTENDS Integers, Sequences, FiniteSets, TLC

\* ---------------------------------------------------------------- bounds
MaxTasks == 2      \* task records ever created
MaxMs == 1         \* single-millisecond clock steps taken
MaxJumps == 1      \* long waits (one priority band of milliseconds each)
MaxShort == 2      \* single milliseconds that pass while requests run
MaxLong == 1       \* waits of one freshness window less a millisecond
MaxConditions == 2  \* entries of a pod's condition list
MaxRepeats == 1     \* keys a scan returns a second time
MaxDepth == 60     \* tasks waiting when an estimate is made
MaxScopeLen == 2   \* pieces of a scope claim, every claim up to this length

\* ------------------------------------------------------ program constants
PriorityScale == 1000000          \* task.priority * 1000000 + Date.now()
DefaultPriority == 3              \* taskSpec.priority || 3
DefaultBranch == "main"           \* taskSpec.branch || 'main'
MinPriority == 1                  \* "Task priority 1-5"
MaxPriority == 5
JWKS_CACHE_DURATION == 3600000    \* 3600 * 1000, one hour in milliseconds

\* ------------------------------------------------------------- sentinels
Undefined == "undefined"          \* a property the caller did not pass
Absent == "absent"                \* a hash field that was never written
NoTime == 0 - 1                   \* a timestamp field that was never written
NoAgent == "null"                 \* agentId: null
NoId == <<>>                      \* no task id yet
UnknownId == <<0, 9>>             \* an id no submitTask ever generated

Users == {"alice", "bob"}         \* req.user.id of the callers
Submitters == {"alice"}           \* the users who submit tasks
Procs == {"c1", "c2"}
Readers == {"c1"}                \* the process whose calls run next to the reads
RandomParts == {0, 1}             \* crypto.randomBytes(4), two outcomes
AgentId == "agent-1"

\* The task specifications callers pass (req.body), one per case of interest.
TaskSpecs ==
  { [instruction |-> "fix bug", repository |-> "janua", branch |-> Undefined,
     hasPriority |-> FALSE, priority |-> 0],
    [instruction |-> "fix bug", repository |-> "janua", branch |-> "dev",
     hasPriority |-> TRUE, priority |-> 2],
    [instruction |-> "fix bug", repository |-> "janua", branch |-> Undefined,
     hasPriority |-> TRUE, priority |-> 0],
    [instruction |-> "fix bug", repository |-> "janua", branch |-> Undefined,
     hasPriority |-> TRUE, priority |-> 0 - 1],
    [instruction |-> "fix bug", repository |-> "janua", branch |-> Undefined,
     hasPriority |-> TRUE, priority |-> 6],
    [instruction |-> Undefined, repository |-> "janua", branch |-> Undefined,
     hasPriority |-> FALSE, priority |-> 0],
    [instruction |-> "fix bug", repository |-> "", branch |-> Undefined,
     hasPriority |-> FALSE, priority |-> 0] }

DefaultSpec ==
  [instruction |-> "fix bug", repository |-> "janua", branch |-> Undefined,
   hasPriority |-> FALSE, priority |-> 0]

LifecycleSpecs == {DefaultSpec}

\* ------------------------------------------------- pods and agent state
Null == "null"                    \* the JavaScript value null
NaN == 0 - 2                      \* what parseInt gives for no digits
PodNames == {"agent-1", "agent-2"}

\* pod.status.conditions: entries of distinct types, as Kubernetes keeps
\* them, in any order.
CondTypes == {"PodScheduled", "Ready"}
CondStatuses == {"True", "False"}
Conditions == [type : CondTypes, status : CondStatuses]
ConditionLists ==
  {cs \in UNION {[1..n -> Conditions] : n \in 0..MaxConditions} :
     \A i, j \in 1..Len(cs) : i # j => cs[i].type # cs[j].type}

\* The fields of a pod the service reads.  A running pod has an address and
\* container statuses, a pending one has neither.
Pod(name, phase, hasConditions, conditions) ==
  [name |-> name,
   uid |-> IF name = "agent-1" THEN "uid-1" ELSE "uid-2",
   phase |-> phase,
   hasConditions |-> hasConditions,
   conditions |-> conditions,
   podIP |-> IF phase = "Running" THEN "10.0.0.7" ELSE Undefined,
   nodeName |-> "node-a",
   startTime |-> "2026-01-01T00:00:00Z",
   labels |-> "app=auto-claude-agent",
   containerStatuses |->
     [defined |-> phase = "Running",
      items |-> IF phase = "Running"
                THEN <<[name |-> "auto-claude", ready |-> TRUE,
                        restartCount |-> 0, state |-> <<"running">>]>>
                ELSE << >>]]

Pods(name) ==
  {Pod(name, ph, TRUE, cs) : ph \in {"Pending", "Running"},
                             cs \in ConditionLists}
    \cup {Pod(name, "Pending", FALSE, << >>)}

\* The hash an agent keeps in Redis.  hGetAll of a missing key gives the
\* empty hash.
EmptyHash == [status |-> Absent, task |-> Absent, worktree |-> Absent,
              lastHeartbeat |-> Absent, tasksCompleted |-> Absent,
              tasksFailed |-> Absent]
AgentHashes ==
  { EmptyHash,
    [status |-> "busy", task |-> "task-7", worktree |-> "/work/7",
     lastHeartbeat |-> "2026-01-01T00:05:00Z", tasksCompleted |-> "3",
     tasksFailed |-> "1"],
    [status |-> "", task |-> Absent, worktree |-> Absent,
     lastHeartbeat |-> Absent, tasksCompleted |-> "many",
     tasksFailed |-> "0"] }

\* ---------------------------------------------- tokens, scopes and routes
NoKeys == "none"                  \* jwksCache = null
KeySets == {"k1", "k2"}           \* the issuer's key set before and after a rotation

\* A scope claim is a string; it is kept as the sequence of its pieces, a
\* piece being a space or a run of other characters.  No piece is a prefix
\* of another, so two sequences are equal exactly when the strings are.
SP == " "
ScopeAtoms == {"agent:view", "agent:control", "er", SP}
ScopeClaims == UNION {[1..k -> ScopeAtoms] : k \in 0..MaxScopeLen}
FullScope == <<"agent:view", SP, "agent:control">>

\* What the request carries: no bearer token, or a token with the key set
\* that holds its signing key (or a forged signature), whether its issuer,
\* audience and expiry pass, and its scope claim if it has one.
NoToken == [present |-> FALSE, sig |-> "none", valid |-> FALSE,
            sub |-> Absent, hasScope |-> FALSE, scope |-> << >>]
Bearer(sig, valid, hasScope, scope) ==
  [present |-> TRUE, sig |-> sig, valid |-> valid, sub |-> "alice",
   hasScope |-> hasScope, scope |-> scope]

GoodToken == Bearer("k1", TRUE, TRUE, FullScope)
GateTokens ==
  {NoToken} \cup {Bearer("k1", TRUE, TRUE, sc) : sc \in ScopeClaims}
    \cup {GoodToken, Bearer("k1", TRUE, FALSE, << >>),
          Bearer("k2", TRUE, TRUE, FullScope),
          Bearer("forged", TRUE, TRUE, FullScope),
          Bearer("k1", FALSE, TRUE, FullScope)}

\* The service operation each documented route calls.
ControlOps == {"submitTask", "cancelTask"}
ViewOps == {"discoverAgents", "getAgentDetails", "getAgentLogs",
            "getTaskDetails", "getUserTasks", "getQueueStats"}
Routes == ControlOps \cup ViewOps

VARIABLES
  clock,      \* Date.now(), in milliseconds since the service started
  tasks,      \* Redis hashes task:<id>: task id -> record of fields
  pending,    \* Redis sorted set autoclaudeQueue:pending: member -> score
  active,     \* Redis list autoclaudeQueue:active
  completed,  \* Redis list autoclaudeQueue:completed
  failed,     \* Redis list autoclaudeQueue:failed
  pc,         \* position of each service call
  call,       \* locals of each service call
  holding,    \* the task the worker is executing, or NoId
  ret,        \* what the call returning in this step returns or throws
  cancelled,  \* history: task id -> number of cancelTask calls that succeeded
  early,      \* history: tasks a cancelTask read before their queue insert
  jwksCache,      \* module variable jwksCache: the cached key set, or NoKeys
  jwksCacheTime,  \* module variable jwksCacheTime
  issuerKeys,     \* the key set the issuer's JWKS endpoint serves
  issuerUp,       \* whether that endpoint answers 200
  podList,        \* Kubernetes: pod name -> pod, for the agent pods
  agentHash       \* Redis hashes agent:<pod name>: pod name -> fields

vars == <<clock, tasks, pending, active, completed, failed, pc, call, holding,
          ret, cancelled, early, jwksCache, jwksCacheTime, issuerKeys,
          issuerUp, podList, agentHash>>
fleet == <<podList, agentHash>>
keys == <<jwksCache, jwksCacheTime>>
issuer == <<issuerKeys, issuerUp>>
hist == <<cancelled, early>>
store == <<tasks, pending, active, completed, failed>>

\* ------------------------------------------------------- pure helpers

\* JavaScript truthiness of a string-valued property: !x
Falsy(x) == x \in {Undefined, ""}

\* Mutant: the validation throws only when both properties are missing.
ValidSpecEither(spec) == ~(Falsy(spec.instruction) /\ Falsy(spec.repository))

\* if (!taskSpec.instruction || !taskSpec.repository) throw
ValidSpec(spec) == ~(Falsy(spec.instruction) \/ Falsy(spec.repository))

\* priority: taskSpec.priority || 3   (undefined and 0 are falsy)
OrDefaultPriority(spec) ==
  IF ~spec.hasPriority \/ spec.priority = 0 THEN DefaultPriority
  ELSE spec.priority

\* branch: taskSpec.branch || 'main'
OrDefaultBranch(spec) ==
  IF Falsy(spec.branch) THEN DefaultBranch ELSE spec.branch

\* generateTaskId: `task-${Date.now().toString(36)}-${randomBytes(4) hex}`
generateTaskId(now, rnd) == <<now, rnd>>

\* The task object submitTask builds (lines 335-350); no cancellation fields.
NewTask(spec, userId, now) ==
  [instruction |-> spec.instruction,
   repository |-> spec.repository,
   branch |-> OrDefaultBranch(spec),
   priority |-> OrDefaultPriority(spec),
   submittedBy |-> userId,
   submittedAt |-> now,
   status |-> "pending",
   agentId |-> NoAgent,
   cancelledAt |-> NoTime,
   cancelledBy |-> Absent]

\* score = task.priority * 1000000 + Date.now()
Score(priority, now) == priority * PriorityScale + now

\* Byte order of two task ids: equal-length base-36 timestamp, then the hex.
IdLess(a, b) == a[1] < b[1] \/ (a[1] = b[1] /\ a[2] < b[2])

\* Order of the sorted set: by score, equal scores by member bytes.
Before(a, b) ==
  pending[a] < pending[b] \/ (pending[a] = pending[b] /\ IdLess(a, b))

\* Mutant: the rank is counted from 1.
zRankOneBased(t) ==
  IF t \in DOMAIN pending
  THEN Cardinality({u \in DOMAIN pending : Before(u, t)}) + 1
  ELSE NoTime

\* redis.zRank(pending, taskId): 0-indexed rank, NoTime standing for null
zRank(t) ==
  IF t \in DOMAIN pending
  THEN Cardinality({u \in DOMAIN pending : Before(u, t)})
  ELSE NoTime

\* redis.zCard(pending)
zCard == Cardinality(DOMAIN pending)

\* redis.zAdd on the sorted set
zAdd(t, score) == [u \in DOMAIN pending \cup {t} |->
                     IF u = t THEN score ELSE pending[u]]

\* Mutant: the first entry of the queue is removed, whatever the member asked.
zRemFirst(t) == [u \in {v \in DOMAIN pending : zRank(v) # 0} |-> pending[u]]

\* redis.zRem on the sorted set
zRem(t) == [u \in DOMAIN pending \ {t} |-> pending[u]]

\* redis.hSet of a whole new record
hSetNew(t, rec) == [u \in DOMAIN tasks \cup {t} |->
                      IF u = t THEN rec ELSE tasks[u]]

\* getTaskDetails: hGetAll, null when the hash is empty
NoTask == [status |-> Absent]
getTaskDetails(t) == IF t \in DOMAIN tasks THEN tasks[t] ELSE NoTask

\* Mutant: the status check is missing.
CancelCheckNoStatus(task, userId) ==
  IF task.status = Absent THEN "NotFound"
  ELSE IF task.submittedBy # userId THEN "NotAuthorized"
  ELSE "ok"

\* Mutant: the status is checked before the owner.
CancelCheckStatusFirst(task, userId) ==
  IF task.status = Absent THEN "NotFound"
  ELSE IF task.status # "pending" THEN "InvalidState"
  ELSE IF task.submittedBy # userId THEN "NotAuthorized"
  ELSE "ok"

\* The checks of cancelTask (lines 496-508) on the record it has read.
CancelCheck(task, userId) ==
  IF task.status = Absent THEN "NotFound"
  ELSE IF task.submittedBy # userId THEN "NotAuthorized"
  ELSE IF task.status # "pending" THEN "InvalidState"
  ELSE "ok"

\* The fields cancelTask writes (lines 514-518).
CancelFields(rec, userId, now) ==
  [rec EXCEPT !.status = "cancelled", !.cancelledAt = now,
              !.cancelledBy = userId]

\* Math.ceil(a / b) for a >= 0, b > 0
CeilDiv(a, b) == (a + b - 1) \div b

\* Mutant: the number of agents is rounded down.
estimateWaitTimeFloor(queueDepth) ==
  LET estimatedAgents ==
        IF queueDepth \div 3 > 1 THEN queueDepth \div 3 ELSE 1
  IN CeilDiv(queueDepth * 600, estimatedAgents)

\* Mutant: one agent is assumed whatever the depth.
estimateWaitTimeOneAgent(queueDepth) == CeilDiv(queueDepth * 600, 1)

\* estimateWaitTime (lines 471-482)
estimateWaitTime(queueDepth) ==
  LET estimatedAgents ==
        IF CeilDiv(queueDepth, 3) > 1 THEN CeilDiv(queueDepth, 3) ELSE 1
  IN CeilDiv(queueDepth * 600, estimatedAgents)

RemoveFrom(seq, t) == SelectSeq(seq, LAMBDA x : x # t)

\* Mutant: the failed list is left out of the total.
QueueTotalNoFailed(nPending, nActive, nCompleted, nFailed) ==
  nPending + nActive + nCompleted

\* getQueueStats, line 451: total of the four counts it has read
QueueTotal(nPending, nActive, nCompleted, nFailed) ==
  nPending + nActive + nCompleted + nFailed

\* Mutant: the window is closed at its upper end.
FreshInclusive(cache, cacheTime, now) ==
  cache # NoKeys /\ now - cacheTime <= JWKS_CACHE_DURATION

\* getJWKS, line 23: jwksCache && (now - jwksCacheTime) < JWKS_CACHE_DURATION
Fresh(cache, cacheTime, now) ==
  cache # NoKeys /\ now - cacheTime < JWKS_CACHE_DURATION

\* Mutant: a failed fetch always throws.
HasFallbackNever(cache) == FALSE

\* getJWKS, line 42: if (jwksCache) in the catch block
HasFallback(cache) == cache # NoKeys

\* String.prototype.split(' '): the runs between single spaces, in order
\* (an empty run between two adjacent spaces or at either end).
RECURSIVE Split(_)
Split(str) ==
  IF \A i \in 1..Len(str) : str[i] # SP THEN <<str>>
  ELSE LET i == CHOOSE k \in 1..Len(str) :
                  str[k] = SP /\ \A j \in 1..(k - 1) : str[j] # SP
       IN <<SubSeq(str, 1, i - 1)>> \o Split(SubSeq(str, i + 1, Len(str)))

\* Line 98: scopes: payload.scope ? payload.scope.split(' ') : []
Scopes(tok) ==
  IF tok.hasScope /\ tok.scope # << >> THEN Split(tok.scope) ELSE << >>

\* Mutant: a scope that contains the required one as a substring passes.
IncludesWithin(userScopes, requiredScope) ==
  \E i \in 1..Len(userScopes) :
    \E a \in 1..(Len(userScopes[i]) - Len(requiredScope) + 1) :
      SubSeq(userScopes[i], a, a + Len(requiredScope) - 1) = requiredScope

\* Array.prototype.includes of line 119
Includes(userScopes, requiredScope) ==
  \E i \in 1..Len(userScopes) : userScopes[i] = requiredScope

\* Mutant: every route asks for agent:view.
RequiredScopeView(op) == <<"agent:view">>

\* The requireScope argument of each documented route.
RequiredScope(op) ==
  IF op \in ControlOps THEN <<"agent:control">> ELSE <<"agent:view">>

\* Mutant: a Ready condition of any status counts.
ReadyOfAnyStatus(pod) ==
  /\ pod.hasConditions
  /\ \E i \in 1..Len(pod.conditions) : pod.conditions[i].type = "Ready"

\* pod.status.conditions?.find(c => c.type === 'Ready')?.status === 'True'
ReadyOf(pod) ==
  /\ pod.hasConditions
  /\ LET found == {i \in 1..Len(pod.conditions) :
                     pod.conditions[i].type = "Ready"}
     IN /\ found # {}
        /\ pod.conditions[CHOOSE i \in found : \A j \in found : i <= j].status
             = "True"

\* String.prototype.toLowerCase on a pod phase
ToLowerCase(phase) ==
  CASE phase = "Pending" -> "pending"
    [] phase = "Running" -> "running"
    [] phase = "Succeeded" -> "succeeded"
    [] phase = "Failed" -> "failed"
    [] OTHER -> "unknown"

\* Lines 84-89: the container statuses as discoverAgentPods maps them
MapContainers(cs) ==
  [defined |-> cs.defined,
   items |-> [i \in 1..Len(cs.items) |->
                [name |-> cs.items[i].name, ready |-> cs.items[i].ready,
                 restartCount |-> cs.items[i].restartCount,
                 state |-> IF cs.items[i].state = << >> THEN Undefined
                           ELSE cs.items[i].state[1]]]]

\* Lines 76-90: what discoverAgentPods keeps of a pod
PodSummary(pod) ==
  [name |-> pod.name, uid |-> pod.uid, phase |-> pod.phase,
   ready |-> ReadyOf(pod), podIP |-> pod.podIP, nodeName |-> pod.nodeName,
   startTime |-> pod.startTime,
   containerStatuses |-> MapContainers(pod.containerStatuses)]

\* parseInt on the counters agents write
ParseInt(str) ==
  CASE str = "0" -> 0
    [] str = "1" -> 1
    [] str = "3" -> 3
    [] OTHER -> NaN

\* new Date(agentState.lastHeartbeat)
DateOf(str) ==
  CASE str = "2026-01-01T00:05:00Z" -> "Date(2026-01-01T00:05:00.000Z)"
    [] OTHER -> "Invalid Date"

\* a || b on strings
OrElse(a, b) == IF Falsy(a) \/ a = Absent THEN b ELSE a

\* getAgentStateFromRedis (lines 104-127): null for an empty hash (and for
\* a read that failed), else the parsed fields.
NoState == [isNull |-> TRUE, status |-> Undefined, currentTask |-> Undefined,
            worktreePath |-> Undefined, lastHeartbeat |-> Undefined,
            tasksCompleted |-> 0, tasksFailed |-> 0]
getAgentStateFromRedis(hash) ==
  IF hash = EmptyHash THEN NoState
  ELSE [isNull |-> FALSE,
        status |-> OrElse(hash.status, "unknown"),
        currentTask |-> OrElse(hash.task, Null),
        worktreePath |-> OrElse(hash.worktree, Null),
        lastHeartbeat |-> IF OrElse(hash.lastHeartbeat, Null) = Null THEN Null
                          ELSE DateOf(hash.lastHeartbeat),
        tasksCompleted |-> ParseInt(OrElse(hash.tasksCompleted, "0")),
        tasksFailed |-> ParseInt(OrElse(hash.tasksFailed, "0"))]

\* n || 0 on numbers
OrZero(n) == IF n = NaN THEN 0 ELSE n

\* Mutant: an agent that reports no state is listed as idle.
RedisFieldsIdle(redisState) ==
  [agentStatus |-> IF redisState.isNull THEN "idle"
                   ELSE OrElse(redisState.status, "unknown"),
   currentTask |-> redisState.currentTask,
   worktreePath |-> redisState.worktreePath,
   lastHeartbeat |-> redisState.lastHeartbeat,
   metrics |-> [tasksCompleted |-> OrZero(redisState.tasksCompleted),
                tasksFailed |-> OrZero(redisState.tasksFailed)]]

\* Lines 153-161 and 198-206: the self-reported part of a view
RedisFields(redisState) ==
  [agentStatus |-> IF redisState.isNull THEN "unknown"
                   ELSE OrElse(redisState.status, "unknown"),
   currentTask |-> redisState.currentTask,
   worktreePath |-> redisState.worktreePath,
   lastHeartbeat |-> redisState.lastHeartbeat,
   metrics |-> [tasksCompleted |-> OrZero(redisState.tasksCompleted),
                tasksFailed |-> OrZero(redisState.tasksFailed)]]

\* Lines 143-152: the Kubernetes part of an entry of discoverAgents
PodFields(pod) ==
  [id |-> pod.name, uid |-> pod.uid,
   status |-> IF pod.ready THEN "ready" ELSE ToLowerCase(pod.phase),
   podStatus |-> pod.phase, ready |-> pod.ready, podIP |-> pod.podIP,
   nodeName |-> pod.nodeName, startTime |-> pod.startTime,
   containers |-> pod.containerStatuses]

\* Lines 188-197: the Kubernetes part of what getAgentDetails returns
DetailFields(pod) ==
  [id |-> pod.name, uid |-> pod.uid, status |-> pod.phase,
   ready |-> ReadyOf(pod), podIP |-> pod.podIP, nodeName |-> pod.nodeName,
   startTime |-> pod.startTime, labels |-> pod.labels,
   containers |-> pod.containerStatuses]

\* A view: the Kubernetes part and the self-reported part side by side.
View(k8sPart, redisPart) == [k8s |-> k8sPart, redis |-> redisPart]

\* ------------------------------------------------------------- calls

IdleCall == [op |-> "none", userId |-> Absent, taskId |-> NoId,
             task |-> NoTask, score |-> NoTime, counts |-> << >>,
             token |-> NoToken, route |-> "none", now |-> NoTime,
             jwks |-> NoKeys, scan |-> << >>, found |-> << >>,
             pods |-> << >>, views |-> << >>]

\* What getQueueStats returns; NoStats when the call returned something else.
NoStats == [pending |-> NoTime, active |-> NoTime, completed |-> NoTime,
            failed |-> NoTime, total |-> NoTime]

NoRet == [op |-> "none", userId |-> Absent, taskId |-> NoId, err |-> "none",
          errStatus |-> Absent, status |-> Absent, rank |-> NoTime,
          wait |-> NoTime, record |-> NoTask, stats |-> NoStats,
          token |-> NoToken, route |-> "none", http |-> 0,
          message |-> Absent, cause |-> "none", authed |-> FALSE,
          ran |-> "none", list |-> << >>, views |-> << >>,
          logs |-> Absent]

Free(p) == pc[p] = "idle"

InFlightIds == {call[p].taskId : p \in Procs}

CancelCount(t) == IF t \in DOMAIN cancelled THEN cancelled[t] ELSE 0

Init ==
  /\ clock = 0
  /\ tasks = << >>
  /\ pending = << >>
  /\ active = << >>
  /\ completed = << >>
  /\ failed = << >>
  /\ pc = [p \in Procs |-> "idle"]
  /\ call = [p \in Procs |-> IdleCall]
  /\ holding = NoId
  /\ ret = NoRet
  /\ cancelled = << >>
  /\ early = {}
  /\ jwksCache = NoKeys
  /\ jwksCacheTime = 0
  /\ issuerKeys = "k1"
  /\ issuerUp = TRUE
  /\ podList = << >>
  /\ agentHash = << >>

\* Task records that exist or are about to be written.
Created ==
  Cardinality(DOMAIN tasks) + Cardinality({p \in Procs : pc[p] = "s_hset"})

\* A call ends: its locals die, what it returned or threw is kept in ret.
Return(p, r) ==
  /\ pc' = [pc EXCEPT ![p] = "idle"]
  /\ call' = [call EXCEPT ![p] = IdleCall]
  /\ ret' = [r EXCEPT !.op = call[p].op, !.userId = call[p].userId,
                      !.taskId = call[p].taskId]

\* A Redis command that fails throws out of the call.
Throw(p, at) ==
  /\ pc[p] = at
  /\ Return(p, [NoRet EXCEPT !.err = "StoreError"])
  /\ UNCHANGED <<clock, store, holding, hist>>

\* ------------------------------------------------ submitTask (323-375)

\* Lines 326-353: validation throws before anything is written; otherwise
\* the id and the task object are built and hSet is issued.
SubmitStart(p, spec, userId, rnd) ==
  /\ Free(p)
  /\ IF ~ValidSpec(spec)
     THEN /\ pc' = pc
          /\ call' = call
          /\ ret' = [NoRet EXCEPT !.op = "submit", !.userId = userId,
                                  !.err = "ValidationError"]
     ELSE /\ Created < MaxTasks
          /\ generateTaskId(clock, rnd) \notin DOMAIN tasks \cup InFlightIds
          /\ pc' = [pc EXCEPT ![p] = "s_hset"]
          /\ call' = [call EXCEPT ![p] = [IdleCall EXCEPT !.op = "submit",
                        !.userId = userId,
                        !.taskId = generateTaskId(clock, rnd),
                        !.task = NewTask(spec, userId, clock)]]
          /\ ret' = NoRet
  /\ UNCHANGED <<clock, store, holding, hist>>

\* Lines 353-356: the record is stored.
SubmitHSet(p) ==
  /\ pc[p] = "s_hset"
  /\ tasks' = hSetNew(call[p].taskId, call[p].task)
  /\ pc' = [pc EXCEPT ![p] = "s_score"]
  /\ ret' = NoRet
  /\ UNCHANGED <<clock, pending, active, completed, failed, call, holding, hist>>

SubmitHSetFail(p) == Throw(p, "s_hset")

\* Line 360: the score is computed from a second clock read.
SubmitScore(p) ==
  /\ pc[p] = "s_score"
  /\ call' = [call EXCEPT ![p].score = Score(call[p].task.priority, clock)]
  /\ pc' = [pc EXCEPT ![p] = "s_zadd"]
  /\ ret' = NoRet
  /\ UNCHANGED <<clock, store, holding, hist>>

\* Lines 362-365: the queue entry is inserted.
SubmitZAdd(p) ==
  /\ pc[p] = "s_zadd"
  /\ pending' = zAdd(call[p].taskId, call[p].score)
  /\ pc' = [pc EXCEPT ![p] = "s_rank"]
  /\ ret' = NoRet
  /\ UNCHANGED <<clock, tasks, active, completed, failed, call, holding, hist>>

SubmitZAddFail(p) == Throw(p, "s_zadd")

\* Line 372: queuePosition: await getQueuePosition(taskId); the position is
\* kept in the score local, which is dead by now.
SubmitRank(p) ==
  /\ pc[p] = "s_rank"
  /\ call' = [call EXCEPT ![p].score = zRank(call[p].taskId)]
  /\ pc' = [pc EXCEPT ![p] = "s_wait"]
  /\ ret' = NoRet
  /\ UNCHANGED <<clock, store, holding, hist>>

\* Lines 369-374: estimatedWaitTime: await estimateWaitTime(); the call
\* returns taskId, status 'pending', the position and the estimate.
SubmitWait(p) ==
  /\ pc[p] = "s_wait"
  /\ Return(p, [NoRet EXCEPT !.status = "pending", !.rank = call[p].score,
                             !.wait = estimateWaitTime(zCard)])
  /\ UNCHANGED <<clock, store, holding, hist>>

\* ------------------------------------------------ cancelTask (490-527)

\* Lines 493-508: the record is read and checked; a failed check throws.
CancelRead(p, t, userId) ==
  /\ Free(p)
  /\ t \in DOMAIN tasks \cup {UnknownId}
  /\ LET task == getTaskDetails(t)
         res == CancelCheck(task, userId)
     IN IF res = "ok"
        THEN /\ pc' = [pc EXCEPT ![p] = "c_zrem"]
             /\ call' = [call EXCEPT ![p] = [IdleCall EXCEPT !.op = "cancel",
                           !.userId = userId, !.taskId = t, !.task = task]]
             /\ ret' = NoRet
             /\ early' = IF t \in DOMAIN pending THEN early ELSE early \cup {t}
        ELSE /\ pc' = pc
             /\ call' = call
             /\ ret' = [NoRet EXCEPT !.op = "cancel", !.userId = userId,
                          !.taskId = t, !.err = res,
                          !.errStatus = IF res = "InvalidState"
                                        THEN task.status ELSE Absent]
             /\ early' = early
  /\ UNCHANGED <<clock, store, holding, cancelled>>

\* Line 511: the queue entry is removed.
CancelZRem(p) ==
  /\ pc[p] = "c_zrem"
  /\ pending' = zRem(call[p].taskId)
  /\ pc' = [pc EXCEPT ![p] = "c_hset"]
  /\ ret' = NoRet
  /\ UNCHANGED <<clock, tasks, active, completed, failed, call, holding, hist>>

CancelZRemFail(p) == Throw(p, "c_zrem")

\* Lines 514-527: status and cancellation fields are written; the call
\* returns status 'cancelled'.
CancelHSet(p) ==
  /\ pc[p] = "c_hset"
  /\ tasks' = [tasks EXCEPT ![call[p].taskId] =
                 CancelFields(@, call[p].userId, clock)]
  /\ Return(p, [NoRet EXCEPT !.status = "cancelled"])
  /\ cancelled' = [u \in DOMAIN cancelled \cup {call[p].taskId} |->
                     IF u = call[p].taskId THEN CancelCount(u) + 1
                     ELSE cancelled[u]]
  /\ UNCHANGED <<clock, pending, active, completed, failed, holding, early>>

CancelHSetFail(p) == Throw(p, "c_hset")

\* ------------------------------------------- the worker-side writer

\* The worker takes the first entry of the pending ordering and marks the
\* task active, in one atomic store operation.
WorkerDequeue ==
  /\ holding = NoId
  /\ \E t \in DOMAIN pending :
       /\ zRank(t) = 0
       /\ pending' = zRem(t)
       /\ tasks' = [tasks EXCEPT ![t].status = "active", ![t].agentId = AgentId]
       /\ active' = Append(active, t)
       /\ holding' = t
  /\ ret' = NoRet
  /\ UNCHANGED <<clock, completed, failed, pc, call, hist>>

\* The worker reports the outcome of the task it is executing.
WorkerFinish(outcome) ==
  /\ holding # NoId
  /\ tasks' = [tasks EXCEPT ![holding].status = outcome]
  /\ active' = RemoveFrom(active, holding)
  /\ completed' = IF outcome = "completed" THEN Append(completed, holding)
                  ELSE completed
  /\ failed' = IF outcome = "failed" THEN Append(failed, holding) ELSE failed
  /\ holding' = NoId
  /\ ret' = NoRet
  /\ UNCHANGED <<clock, pending, pc, call, hist>>

\* ------------------------------------------------------ the queue reads

\* GET /api/tasks/:id: the handler returns getTaskDetails(req.params.id)
\* (lines 382-395) to the caller, 404 when it is null.
GetTask(p, t, userId) ==
  /\ Free(p)
  /\ ret' = [NoRet EXCEPT !.op = "get", !.userId = userId, !.taskId = t,
                          !.err = IF getTaskDetails(t) = NoTask
                                  THEN "NotFound" ELSE "none",
                          !.record = getTaskDetails(t)]
  /\ UNCHANGED <<clock, store, pc, call, holding, hist>>

\* What a full iteration of redis.scanIterator over the task keys may
\* yield while no key is added or removed: every key at least once, in any
\* order, a key possibly more than once (SCAN gives no more than that).
ScanOrders ==
  LET n == Cardinality(DOMAIN tasks)
  IN {ks \in UNION {[1..m -> DOMAIN tasks] : m \in n..(n + MaxRepeats)} :
        {ks[i] : i \in 1..Len(ks)} = DOMAIN tasks}

\* Array.prototype.sort with (a, b) => new Date(b.submittedAt) -
\* new Date(a.submittedAt): stable, so a record goes behind every record
\* before it that is as new or newer.  The records are named by their ids;
\* submittedAt is kept in milliseconds, the ISO string being its exact
\* image.
InsertByTime(sorted, t) ==
  LET older == {i \in 1..Len(sorted) :
                  tasks[sorted[i]].submittedAt < tasks[t].submittedAt}
      k == IF older = {} THEN Len(sorted) + 1
           ELSE CHOOSE i \in older : \A j \in older : i <= j
  IN SubSeq(sorted, 1, k - 1) \o <<t>> \o SubSeq(sorted, k, Len(sorted))

RECURSIVE SortNewestFirst(_)
SortNewestFirst(ids) ==
  IF ids = << >> THEN << >>
  ELSE InsertByTime(SortNewestFirst(SubSeq(ids, 1, Len(ids) - 1)),
                    ids[Len(ids)])

\* getUserTasks, lines 405-412: the keys are collected.
UserTasksScan(p, userId, ks) ==
  /\ Free(p)
  /\ ks \in ScanOrders
  /\ IF ks = << >>
     THEN /\ pc' = pc
          /\ call' = call
          /\ ret' = [NoRet EXCEPT !.op = "list", !.userId = userId]
     ELSE /\ pc' = [pc EXCEPT ![p] = "u_read"]
          /\ call' = [call EXCEPT ![p] = [IdleCall EXCEPT !.op = "list",
                        !.userId = userId, !.scan = ks]]
          /\ ret' = NoRet
  /\ UNCHANGED <<clock, store, holding, hist>>

\* Lines 415-429: the next key is read with hGetAll and kept if its
\* submitter is the user; after the last key the list is sorted and
\* returned.
UserTasksRead(p) ==
  /\ pc[p] = "u_read"
  /\ LET t == Head(call[p].scan)
         found == IF getTaskDetails(t).submittedBy = call[p].userId
                  THEN Append(call[p].found, t) ELSE call[p].found
     IN IF Tail(call[p].scan) = << >>
        THEN Return(p, [NoRet EXCEPT !.list = SortNewestFirst(found)])
        ELSE /\ pc' = pc
             /\ call' = [call EXCEPT ![p].scan = Tail(@), ![p].found = found]
             /\ ret' = NoRet
  /\ UNCHANGED <<clock, store, holding, hist>>

\* One of the four counts of getQueueStats (lines 439-444) arrives.  The
\* commands are issued together and Redis runs them one at a time, in order:
\* zCard pending, lLen active, lLen completed, lLen failed.
StatsRead(p, at, n, to) ==
  /\ pc[p] = at
  /\ pc' = [pc EXCEPT ![p] = to]
  /\ call' = [call EXCEPT ![p] = [@ EXCEPT !.op = "stats",
                                           !.counts = Append(@, n)]]
  /\ ret' = NoRet
  /\ UNCHANGED <<clock, store, holding, hist>>

StatsPending(p) == StatsRead(p, "idle", zCard, "q_active")

StatsActive(p) == StatsRead(p, "q_active", Len(active), "q_completed")

StatsCompleted(p) == StatsRead(p, "q_completed", Len(completed), "q_failed")

\* The last count arrives and the object of lines 446-452 is returned.
StatsFailed(p) ==
  /\ pc[p] = "q_failed"
  /\ LET c == call[p].counts
         nFailed == Len(failed)
     IN Return(p, [NoRet EXCEPT !.stats =
                     [pending |-> c[1], active |-> c[2], completed |-> c[3],
                      failed |-> nFailed,
                      total |-> QueueTotal(c[1], c[2], c[3], nFailed)]])
  /\ UNCHANGED <<clock, store, holding, hist>>

\* ------------------------------------- the authentication middleware

\* What a request is answered with when a middleware ends it.
Rejected(code, message, cause) ==
  [NoRet EXCEPT !.http = code, !.message = message, !.cause = cause]

\* A request ends: the response, or the operation its handler started, is
\* kept in ret with the token and the route of the request.
Respond(p, r) ==
  Return(p, [r EXCEPT !.token = call[p].token, !.route = call[p].route])

\* authenticateJanuaToken up to its first suspension (lines 77-90), through
\* verifyJanuaToken (line 57) into getJWKS (lines 19-28): without a token
\* the request is answered 401; otherwise getJWKS reads the time and
\* either returns the fresh cache or issues the fetch.
authenticateJanuaToken(p, tok, route) ==
  /\ Free(p)
  /\ IF ~tok.present
     THEN /\ pc' = pc
          /\ call' = call
          /\ ret' = [Rejected(401, "Access denied", "token") EXCEPT
                       !.op = "request", !.token = tok, !.route = route]
     ELSE /\ pc' = [pc EXCEPT ![p] =
                     IF Fresh(jwksCache, jwksCacheTime, clock)
                     THEN "v_verify" ELSE "k_fetch"]
          /\ call' = [call EXCEPT ![p] = [IdleCall EXCEPT !.op = "request",
                        !.token = tok, !.route = route, !.now = clock,
                        !.jwks = IF Fresh(jwksCache, jwksCacheTime, clock)
                                 THEN jwksCache ELSE NoKeys]]
          /\ ret' = NoRet
  /\ UNCHANGED <<clock, store, holding, hist, keys, issuer, fleet>>

\* Mutant: the fetched key set is stored, its time is not.
getJWKSFetchOkNoTime(p) ==
  /\ pc[p] = "k_fetch"
  /\ issuerUp
  /\ jwksCache' = issuerKeys
  /\ jwksCacheTime' = jwksCacheTime
  /\ pc' = [pc EXCEPT ![p] = "v_verify"]
  /\ call' = [call EXCEPT ![p].jwks = issuerKeys]
  /\ ret' = NoRet
  /\ UNCHANGED <<clock, store, holding, hist, issuer, fleet>>

\* Lines 28-37: the fetch answers 200 and the body is parsed; the cache and
\* its timestamp are assigned in one go, then the cache is returned.
getJWKSFetchOk(p) ==
  /\ pc[p] = "k_fetch"
  /\ issuerUp
  /\ jwksCache' = issuerKeys
  /\ jwksCacheTime' = call[p].now
  /\ pc' = [pc EXCEPT ![p] = "v_verify"]
  /\ call' = [call EXCEPT ![p].jwks = issuerKeys]
  /\ ret' = NoRet
  /\ UNCHANGED <<clock, store, holding, hist, issuer, fleet>>

\* Lines 29-31 and 38-48: the fetch fails (network error or a non-OK
\* answer); the cache is returned if there is one, else the error is thrown
\* and authenticateJanuaToken answers 403 (lines 102-108).
getJWKSFetchFail(p) ==
  /\ pc[p] = "k_fetch"
  /\ ~issuerUp
  /\ IF HasFallback(jwksCache)
     THEN /\ pc' = [pc EXCEPT ![p] = "v_verify"]
          /\ call' = [call EXCEPT ![p].jwks = jwksCache]
          /\ ret' = NoRet
     ELSE Respond(p, Rejected(403, "Invalid or expired token", "jwks"))
  /\ UNCHANGED <<clock, store, holding, hist, keys, issuer, fleet>>

\* Lines 58-70, 93-108 and 115-129: jose.createRemoteJWKSet makes a key set
\* of its own that loads the issuer's endpoint when jwtVerify first needs a
\* key; the value getJWKS returned is not passed to it.  A token that
\* verifies gives req.user, next() runs requireScope of the route, and
\* that either answers 403 or lets the handler call the operation.
verifyJanuaToken(p) ==
  /\ pc[p] = "v_verify"
  /\ LET tok == call[p].token
         verified == issuerUp /\ tok.sig = issuerKeys /\ tok.valid
         passed == Includes(Scopes(tok), RequiredScope(call[p].route))
     IN Respond(p,
          IF ~verified
          THEN Rejected(403, "Invalid or expired token", "verify")
          ELSE IF ~passed
          THEN [Rejected(403, "Insufficient permissions", "scope") EXCEPT
                  !.authed = TRUE]
          ELSE [NoRet EXCEPT !.authed = TRUE, !.ran = call[p].route])
  /\ UNCHANGED <<clock, store, holding, hist, keys, issuer, fleet>>

\* The issuer's endpoint stops answering, answers again, rotates its keys.
IssuerFails ==
  /\ issuerUp
  /\ issuerUp' = FALSE
  /\ ret' = NoRet
  /\ UNCHANGED <<clock, store, pc, call, holding, hist, keys,
               issuerKeys, fleet>>

IssuerRecovers ==
  /\ ~issuerUp
  /\ issuerUp' = TRUE
  /\ ret' = NoRet
  /\ UNCHANGED <<clock, store, pc, call, holding, hist, keys,
               issuerKeys, fleet>>

RotateKeys ==
  /\ issuerKeys = "k1"
  /\ issuerKeys' = "k2"
  /\ ret' = NoRet
  /\ UNCHANGED <<clock, store, pc, call, holding, hist, keys,
               issuerUp, fleet>>

\* Time passes for the cache: a millisecond, or a freshness window less a
\* millisecond.
TickShort ==
  /\ (clock - JWKS_CACHE_DURATION) % (JWKS_CACHE_DURATION - 1) < MaxShort
  /\ clock' = clock + 1
  /\ ret' = NoRet
  /\ UNCHANGED <<store, pc, call, holding, hist, keys, issuer, fleet>>

TickLong ==
  /\ (clock - JWKS_CACHE_DURATION) \div (JWKS_CACHE_DURATION - 1) < MaxLong
  /\ clock' = clock + JWKS_CACHE_DURATION - 1
  /\ ret' = NoRet
  /\ UNCHANGED <<store, pc, call, holding, hist, keys, issuer, fleet>>

\* ------------------------------------------------ agent discovery

others == <<clock, store, holding, hist, keys, issuer>>

\* The pods the label selector matches, in the order the API lists them.
PodOrder == <<"agent-1", "agent-2">>
ListedPods ==
  LET names == SelectSeq(PodOrder, LAMBDA n : n \in DOMAIN podList)
  IN [i \in 1..Len(names) |-> podList[names[i]]]

\* redis.hGetAll(`agent:${agentId}`)
HashOf(name) ==
  IF name \in DOMAIN agentHash THEN agentHash[name] ELSE EmptyHash

\* discoverAgents, lines 133-140: discoverAgentPods lists the pods and
\* keeps a summary of each; the state reads are issued.  With no pod the
\* empty list is returned.
discoverAgentPods(p) ==
  /\ Free(p)
  /\ LET pods == [i \in 1..Len(ListedPods) |-> PodSummary(ListedPods[i])]
     IN IF pods = << >>
        THEN /\ pc' = pc
             /\ call' = call
             /\ ret' = [NoRet EXCEPT !.op = "discoverAgents"]
        ELSE /\ pc' = [pc EXCEPT ![p] = "d_read"]
             /\ call' = [call EXCEPT ![p] =
                           [IdleCall EXCEPT !.op = "discoverAgents",
                                            !.pods = pods]]
             /\ ret' = NoRet
  /\ UNCHANGED <<others, fleet>>

\* Lines 93-96 and 166-169: the Kubernetes API call fails and the error is
\* thrown on.
discoverAgentPodsFail(p) ==
  /\ Free(p)
  /\ pc' = pc
  /\ call' = call
  /\ ret' = [NoRet EXCEPT !.op = "discoverAgents", !.err = "KubernetesError"]
  /\ UNCHANGED <<others, fleet>>

\* Mutant: a read that fails ends the listing with the error.
EnrichReadFailThrows(p) ==
  /\ pc[p] = "d_read"
  /\ Return(p, [NoRet EXCEPT !.err = "StoreError"])
  /\ UNCHANGED <<others, fleet>>

\* Mutant: an agent found without state is given a hash.
DetailsNextWriteBack(p, redisState) ==
  /\ pc[p] = "g_read"
  /\ Return(p, [NoRet EXCEPT !.views =
                  <<View(DetailFields(call[p].pods[1]),
                         RedisFields(redisState))>>])
  /\ agentHash' = IF redisState.isNull
                  THEN [agentHash EXCEPT ![call[p].pods[1].name] =
                          [EmptyHash EXCEPT !.status = "unknown"]]
                  ELSE agentHash
  /\ UNCHANGED <<others, podList>>

\* Lines 141-162: the state of the next pod arrives (null when the read
\* threw) and its entry is built; after the last one the list is returned.
EnrichNext(p, redisState) ==
  /\ pc[p] = "d_read"
  /\ LET pod == call[p].pods[Len(call[p].views) + 1]
         views == Append(call[p].views,
                         View(PodFields(pod), RedisFields(redisState)))
     IN IF Len(views) = Len(call[p].pods)
        THEN Return(p, [NoRet EXCEPT !.views = views])
        ELSE /\ pc' = pc
             /\ call' = [call EXCEPT ![p].views = views]
             /\ ret' = NoRet
  /\ UNCHANGED <<others, fleet>>

EnrichRead(p) ==
  /\ pc[p] = "d_read"
  /\ EnrichNext(p, getAgentStateFromRedis(
                     HashOf(call[p].pods[Len(call[p].views) + 1].name)))

\* Lines 123-126: connecting to Redis or the read fails; null is returned.
EnrichReadFail(p) == EnrichNext(p, NoState)

\* getAgentDetails, lines 181-185: the pod is read.
DetailsPod(p, name) ==
  /\ Free(p)
  /\ name \in DOMAIN podList
  /\ pc' = [pc EXCEPT ![p] = "g_read"]
  /\ call' = [call EXCEPT ![p] =
                [IdleCall EXCEPT !.op = "getAgentDetails",
                                 !.pods = <<podList[name]>>]]
  /\ ret' = NoRet
  /\ UNCHANGED <<others, fleet>>

\* Lines 208-211: the pod does not exist or the API call fails.
DetailsPodFail(p, name) ==
  /\ Free(p)
  /\ pc' = pc
  /\ call' = call
  /\ ret' = [NoRet EXCEPT !.op = "getAgentDetails",
                          !.err = "KubernetesError"]
  /\ UNCHANGED <<others, fleet>>

\* Lines 187-207: the state arrives and the view is returned.
DetailsNext(p, redisState) ==
  /\ pc[p] = "g_read"
  /\ Return(p, [NoRet EXCEPT !.views =
                  <<View(DetailFields(call[p].pods[1]),
                         RedisFields(redisState))>>])
  /\ UNCHANGED <<others, fleet>>

DetailsRead(p) ==
  /\ pc[p] = "g_read"
  /\ DetailsNext(p, getAgentStateFromRedis(HashOf(call[p].pods[1].name)))

DetailsReadFail(p) == DetailsNext(p, NoState)

\* getAgentLogs (lines 221-244): the log of the pod's container is read
\* and returned, or the error is thrown on.
getAgentLogs(p, name) ==
  /\ Free(p)
  /\ pc' = pc
  /\ call' = call
  /\ ret' = IF name \in DOMAIN podList
            THEN [NoRet EXCEPT !.op = "getAgentLogs",
                               !.logs = podList[name].uid]
            ELSE [NoRet EXCEPT !.op = "getAgentLogs",
                               !.err = "KubernetesError"]
  /\ UNCHANGED <<others, fleet>>

\* An agent writes its state.
AgentReports(name, hash) ==
  /\ HashOf(name) # hash
  /\ agentHash' = [n \in DOMAIN agentHash \cup {name} |->
                     IF n = name THEN hash ELSE agentHash[n]]
  /\ ret' = NoRet
  /\ UNCHANGED <<others, pc, call, podList>>

\* ------------------------------------------------------------ the clock

Tick ==
  /\ clock % PriorityScale < MaxMs
  /\ clock' = clock + 1
  /\ ret' = NoRet
  /\ UNCHANGED <<store, pc, call, holding, hist>>

\* A long quiet period: one priority band of milliseconds passes.
Jump ==
  /\ clock \div PriorityScale < MaxJumps
  /\ clock' = clock + PriorityScale
  /\ ret' = NoRet
  /\ UNCHANGED <<store, pc, call, holding, hist>>

\* The service and the worker on tasks of default priority; the clock stands
\* still, ids differ by their random part.
Next ==
  /\ \/ \E p \in Procs, spec \in LifecycleSpecs, u \in Submitters,
           r \in RandomParts :
          SubmitStart(p, spec, u, r)
     \/ \E p \in Procs : SubmitHSet(p)
     \/ \E p \in Procs : SubmitHSetFail(p)
     \/ \E p \in Procs : SubmitScore(p)
     \/ \E p \in Procs : SubmitZAdd(p)
     \/ \E p \in Procs : SubmitZAddFail(p)
     \/ \E p \in Procs : SubmitRank(p)
     \/ \E p \in Procs : SubmitWait(p)
     \/ \E p \in Procs, t \in DOMAIN tasks \cup {UnknownId}, u \in Users :
          CancelRead(p, t, u)
     \/ \E p \in Procs : CancelZRem(p)
     \/ \E p \in Procs : CancelZRemFail(p)
     \/ \E p \in Procs : CancelHSet(p)
     \/ \E p \in Procs : CancelHSetFail(p)
     \/ WorkerDequeue
     \/ \E o \in {"completed", "failed"} : WorkerFinish(o)
  /\ UNCHANGED <<keys, issuer, fleet>>

Spec == Init /\ [][Next]_vars

\* Concurrent submissions of every kind of task specification, over time.
NextSubmit ==
  /\ \/ \E p \in Procs, spec \in TaskSpecs, u \in Submitters, r \in RandomParts :
          SubmitStart(p, spec, u, r)
     \/ \E p \in Procs : SubmitHSet(p)
     \/ \E p \in Procs : SubmitScore(p)
     \/ \E p \in Procs : SubmitZAdd(p)
     \/ \E p \in Procs : SubmitRank(p)
     \/ \E p \in Procs : SubmitWait(p)
     \/ Tick
     \/ Jump
  /\ UNCHANGED <<keys, issuer, fleet>>

SpecSubmit == Init /\ [][NextSubmit]_vars

\* The reads of the service next to one caller's submissions and
\* cancellations and the worker; tasks are submitted by both users.
NextRead ==
  /\ \/ \E p \in Readers, u \in Users, r \in RandomParts :
          SubmitStart(p, DefaultSpec, u, r)
     \/ \E p \in Readers : SubmitHSet(p)
     \/ \E p \in Readers : SubmitScore(p)
     \/ \E p \in Readers : SubmitZAdd(p)
     \/ \E p \in Readers : SubmitRank(p)
     \/ \E p \in Readers : SubmitWait(p)
     \/ \E p \in Readers, t \in DOMAIN tasks \cup {UnknownId}, u \in Users :
          CancelRead(p, t, u)
     \/ \E p \in Readers : CancelZRem(p)
     \/ \E p \in Readers : CancelHSet(p)
     \/ \E p \in Readers, t \in DOMAIN tasks \cup {UnknownId}, u \in Users :
          GetTask(p, t, u)
     \/ \E p \in Readers : StatsPending(p)
     \/ \E p \in Readers : StatsActive(p)
     \/ \E p \in Readers : StatsCompleted(p)
     \/ \E p \in Readers : StatsFailed(p)
     \/ WorkerDequeue
     \/ \E o \in {"completed", "failed"} : WorkerFinish(o)
  /\ UNCHANGED <<keys, issuer, fleet>>

SpecRead == Init /\ [][NextRead]_vars

\* The listing of a user's tasks next to one caller's submissions and
\* cancellations and the worker, over two milliseconds; tasks are
\* submitted by both users.
NextList ==
  /\ \/ \E p \in Readers, u \in Users, r \in RandomParts :
          SubmitStart(p, DefaultSpec, u, r)
     \/ \E p \in Readers : SubmitHSet(p)
     \/ \E p \in Readers : SubmitScore(p)
     \/ \E p \in Readers : SubmitZAdd(p)
     \/ \E p \in Readers : SubmitRank(p)
     \/ \E p \in Readers : SubmitWait(p)
     \/ \E p \in Readers, t \in DOMAIN tasks, u \in Users :
          CancelRead(p, t, u)
     \/ \E p \in Readers : CancelZRem(p)
     \/ \E p \in Readers : CancelHSet(p)
     \/ \E p \in Readers, u \in Users, ks \in ScanOrders :
          UserTasksScan(p, u, ks)
     \/ \E p \in Readers : UserTasksRead(p)
     \/ WorkerDequeue
     \/ \E o \in {"completed", "failed"} : WorkerFinish(o)
     \/ Tick
  /\ UNCHANGED <<keys, issuer, fleet>>

SpecList == Init /\ [][NextList]_vars

\* The fleet as the service may find it: the first agent's pod in any
\* phase and condition, the second one ready or not there, each agent
\* with any of the states it may have reported.
InitFleet ==
  /\ clock = 0
  /\ tasks = << >>
  /\ pending = << >>
  /\ active = << >>
  /\ completed = << >>
  /\ failed = << >>
  /\ pc = [p \in Procs |-> "idle"]
  /\ call = [p \in Procs |-> IdleCall]
  /\ holding = NoId
  /\ ret = NoRet
  /\ cancelled = << >>
  /\ early = {}
  /\ jwksCache = NoKeys
  /\ jwksCacheTime = 0
  /\ issuerKeys = "k1"
  /\ issuerUp = TRUE
  /\ \E first \in SUBSET {"agent-1"}, second \in SUBSET {"agent-2"} :
       podList \in [first \cup second ->
                      Pods("agent-1") \cup
                        {Pod("agent-2", "Running", TRUE,
                             <<[type |-> "Ready", status |-> "True"]>>)}]
       /\ \A n \in first \cup second : podList[n].name = n
  /\ agentHash \in [PodNames -> AgentHashes]

\* Concurrent listings, detail reads and log reads while the agents
\* report.
NextFleet ==
  \/ \E p \in Procs : discoverAgentPods(p)
  \/ \E p \in Procs : discoverAgentPodsFail(p)
  \/ \E p \in Procs : EnrichRead(p)
  \/ \E p \in Procs : EnrichReadFail(p)
  \/ \E p \in Procs, n \in PodNames : DetailsPod(p, n)
  \/ \E p \in Procs, n \in PodNames : DetailsPodFail(p, n)
  \/ \E p \in Procs : DetailsRead(p)
  \/ \E p \in Procs : DetailsReadFail(p)
  \/ \E p \in Procs, n \in PodNames : getAgentLogs(p, n)
  \/ \E n \in PodNames, h \in AgentHashes : AgentReports(n, h)

SpecFleet == InitFleet /\ [][NextFleet]_vars

\* A submission about to make its estimate (its record and its queue entry
\* are written, its position is read) behind a queue of any depth of
\* default-priority tasks submitted in the same millisecond.
QueuedIds(d) == {generateTaskId(0, k) : k \in 1..d}

InitWait ==
  \E d \in 1..MaxDepth :
    /\ clock = 0
    /\ tasks = [t \in QueuedIds(d) |-> NewTask(DefaultSpec, "alice", 0)]
    /\ pending = [t \in QueuedIds(d) |-> Score(DefaultPriority, 0)]
    /\ active = << >>
    /\ completed = << >>
    /\ failed = << >>
    /\ pc = [p \in Procs |-> IF p = "c1" THEN "s_wait" ELSE "idle"]
    /\ call = [p \in Procs |->
                IF p = "c1"
                THEN [IdleCall EXCEPT !.op = "submit", !.userId = "alice",
                        !.taskId = generateTaskId(0, 1),
                        !.task = NewTask(DefaultSpec, "alice", 0),
                        !.score = 0]
                ELSE IdleCall]
    /\ holding = NoId
    /\ ret = NoRet
    /\ cancelled = << >>
    /\ early = {}
    /\ jwksCache = NoKeys
    /\ jwksCacheTime = 0
    /\ issuerKeys = "k1"
    /\ issuerUp = TRUE
    /\ podList = << >>
    /\ agentHash = << >>

\* The estimate of that submission, before or after the worker has taken
\* the task at the head of the queue (the new one).
NextWait ==
  /\ \/ \E p \in Procs : SubmitWait(p)
     \/ WorkerDequeue
  /\ UNCHANGED <<keys, issuer, fleet>>

SpecWait == InitWait /\ [][NextWait]_vars

\* The middleware starts with an empty cache, at a time of day that is at
\* least one freshness window after the epoch.
InitAuth ==
  /\ clock = JWKS_CACHE_DURATION
  /\ tasks = << >>
  /\ pending = << >>
  /\ active = << >>
  /\ completed = << >>
  /\ failed = << >>
  /\ pc = [p \in Procs |-> "idle"]
  /\ call = [p \in Procs |-> IdleCall]
  /\ holding = NoId
  /\ ret = NoRet
  /\ cancelled = << >>
  /\ early = {}
  /\ jwksCache = NoKeys
  /\ jwksCacheTime = 0
  /\ issuerKeys = "k1"
  /\ issuerUp = TRUE
  /\ podList = << >>
  /\ agentHash = << >>

\* Concurrent requests with a good token refreshing the key cache, while
\* time passes and the issuer fails, recovers and rotates its keys.
NextKeys ==
  \/ \E p \in Procs : authenticateJanuaToken(p, GoodToken, "getQueueStats")
  \/ \E p \in Procs : getJWKSFetchOk(p)
  \/ \E p \in Procs : getJWKSFetchFail(p)
  \/ \E p \in Procs : verifyJanuaToken(p)
  \/ IssuerFails
  \/ IssuerRecovers
  \/ RotateKeys
  \/ TickShort
  \/ TickLong

SpecKeys == InitAuth /\ [][NextKeys]_vars

\* One request at a time through every documented route, with every kind
\* of token, while the issuer fails, recovers and rotates its keys.
NextGate ==
  \/ \E p \in Readers, tok \in GateTokens, route \in Routes :
       authenticateJanuaToken(p, tok, route)
  \/ \E p \in Readers : getJWKSFetchOk(p)
  \/ \E p \in Readers : getJWKSFetchFail(p)
  \/ \E p \in Readers : verifyJanuaToken(p)
  \/ IssuerFails
  \/ IssuerRecovers
  \/ RotateKeys

SpecGate == InitAuth /\ [][NextGate]_vars

\* ==================================================================
\* Properties
\* ==================================================================

CancelInFlight(t) ==
  \E p \in Procs : pc[p] \in {"c_zrem", "c_hset"} /\ call[p].taskId = t

HasCancelMeta(t) ==
  tasks[t].cancelledAt # NoTime /\ tasks[t].cancelledBy # Absent

\* C1: of two tasks in the pending queue, the one with the numerically lower
\* priority has the strictly smaller order key and so the lower rank, however
\* far apart in time the two were submitted.
C1_PriorityOrder ==
  \A a, b \in DOMAIN pending :
    tasks[a].priority < tasks[b].priority
      => pending[a] < pending[b] /\ zRank(a) < zRank(b)

\* C2: of two pending tasks of equal priority, the one whose recorded
\* submittedAt is earlier ranks first.
C2_FifoWithinPriority ==
  \A a, b \in DOMAIN pending :
    (tasks[a].priority = tasks[b].priority
       /\ tasks[a].submittedAt < tasks[b].submittedAt)
      => zRank(a) < zRank(b)

\* C3: a task whose stored status is active, completed or failed never
\* becomes cancelled.
C3_NoCancelOnceClaimed ==
  [][\A t \in DOMAIN tasks :
       tasks[t].status \in {"active", "completed", "failed"}
         => tasks'[t].status # "cancelled"]_vars

\* C4: a cancelTask call by the owner on a pending task goes on to cancel
\* it; a call by the owner that starts after a cancelTask of the same task
\* has returned success (no worker having claimed the task) throws the
\* invalid-state error for status 'cancelled', changes neither the record
\* nor the queue, and the status stays cancelled.
C4_SecondCancelFails ==
  [][\A p \in Procs, t \in DOMAIN tasks :
       CancelRead(p, t, tasks[t].submittedBy)
         => /\ tasks[t].status = "pending" => pc'[p] = "c_zrem"
            /\ (CancelCount(t) > 0 /\ tasks[t].agentId = NoAgent)
                 => /\ ret'.op = "cancel" /\ ret'.taskId = t
                    /\ ret'.err = "InvalidState"
                    /\ ret'.errStatus = "cancelled"
                    /\ pc' = pc
                    /\ UNCHANGED store
                    /\ tasks'[t].status = "cancelled"]_vars

C4_Witness ==
  /\ ret.op = "cancel"
  /\ ret.err = "InvalidState"
  /\ ret.errStatus = "cancelled"
  /\ ret.taskId \in DOMAIN tasks
  /\ ret.userId = tasks[ret.taskId].submittedBy
  /\ tasks[ret.taskId].agentId = NoAgent
  /\ CancelCount(ret.taskId) = 1
  /\ tasks[ret.taskId].status = "cancelled"

\* C5: cancelTask by a user other than the submitter throws the
\* authorization error and leaves the whole store unchanged, whatever the
\* status of the task.
C5_NotOwnerRejected ==
  [][\A p \in Procs, t \in DOMAIN tasks, u \in Users :
       (CancelRead(p, t, u) /\ u # tasks[t].submittedBy)
         => /\ ret'.op = "cancel" /\ ret'.taskId = t /\ ret'.userId = u
            /\ ret'.err = "NotAuthorized"
            /\ pc' = pc
            /\ UNCHANGED store]_vars

C5_Witness ==
  /\ ret.op = "cancel"
  /\ ret.err = "NotAuthorized"
  /\ ret.taskId \in DOMAIN tasks
  /\ ret.userId # tasks[ret.taskId].submittedBy
  /\ tasks[ret.taskId].status = "active"
  /\ \E t \in DOMAIN pending : tasks[t].status = "pending"

\* C6: once the concurrent cancelTask calls of the owner on a queued pending
\* task have finished, one of them at least with success (no worker having
\* claimed the task), the task is cancelled by its owner and absent from the
\* pending queue; and no step of a cancelTask call changes the record or the
\* queue entry of any other task.
C6_End ==
  \A t \in DOMAIN cancelled :
    (~CancelInFlight(t) /\ tasks[t].agentId = NoAgent /\ t \notin early)
      => /\ tasks[t].status = "cancelled"
         /\ tasks[t].cancelledBy = tasks[t].submittedBy
         /\ t \notin DOMAIN pending

C6_Frame ==
  \A p \in Procs :
    (CancelZRem(p) \/ CancelHSet(p) \/ CancelZRemFail(p) \/ CancelHSetFail(p))
      => \A u \in DOMAIN tasks \ {call[p].taskId} :
           /\ tasks'[u] = tasks[u]
           /\ (u \in DOMAIN pending) = (u \in DOMAIN pending')
           /\ u \in DOMAIN pending => pending'[u] = pending[u]

C6_ConcurrentCancels == []C6_End /\ [][C6_Frame]_vars

C6_Witness ==
  \E t \in DOMAIN cancelled :
    /\ cancelled[t] = 2
    /\ ~CancelInFlight(t)
    /\ tasks[t].agentId = NoAgent
    /\ t \notin early
    /\ tasks[t].status = "cancelled"
    /\ \E u \in DOMAIN pending : u # t /\ tasks[u].status = "pending"

\* C7: a task id is a member of the pending sorted set if and only if the
\* stored status of the task is pending.
C7_QueuedIffPending ==
  \A t \in DOMAIN tasks : (t \in DOMAIN pending) <=> tasks[t].status = "pending"

\* C8: a task record carries cancellation metadata if and only if its status
\* is cancelled.
C8_MetaIffCancelled ==
  \A t \in DOMAIN tasks : HasCancelMeta(t) <=> tasks[t].status = "cancelled"

\* C9: every stored task record has a priority in the range 1 to 5.
C9_PriorityInRange ==
  \A t \in DOMAIN tasks : tasks[t].priority \in MinPriority..MaxPriority

C11_PositionIsRank ==
  (ret.op = "submit" /\ ret.err = "none")
    => ret.rank >= 0 /\ ret.rank = zRank(ret.taskId)

\* C11 (amended): a successful submitTask returns status pending and the
\* position getQueuePosition read after the insert: the number of entries
\* ordered before the task at that moment (0 when it is the first or only
\* entry), or null when the task had already left the pending queue.
C11_PositionAsRead ==
  [][\A p \in Procs :
       /\ SubmitRank(p) =>
            LET t == call[p].taskId
                ahead == {u \in DOMAIN pending \ {t} :
                            \/ pending[u] < pending[t]
                            \/ pending[u] = pending[t] /\ IdLess(u, t)}
            IN call'[p].score = IF t \in DOMAIN pending
                                THEN Cardinality(ahead) ELSE NoTime
       /\ SubmitWait(p) =>
            /\ ret'.op = "submit" /\ ret'.err = "none"
            /\ ret'.taskId = call[p].taskId
            /\ ret'.status = "pending"
            /\ ret'.rank = call[p].score]_vars

C11_Witness ==
  /\ ret.op = "submit"
  /\ ret.err = "none"
  /\ ret.status = "pending"
  /\ ret.rank = 0
  /\ zRank(ret.taskId) = 1

\* C12: the object getQueueStats returns has total = pending + active +
\* completed + failed, and no step of getQueueStats changes a task record,
\* the pending queue or a list.
C12_TotalIsSum ==
  ret.stats # NoStats =>
    /\ ret.op = "stats"
    /\ ret.stats.total = ret.stats.pending + ret.stats.active
                           + ret.stats.completed + ret.stats.failed

C12_ReadOnly ==
  \A p \in Procs :
    (StatsPending(p) \/ StatsActive(p) \/ StatsCompleted(p) \/ StatsFailed(p))
      => UNCHANGED store

C12_QueueStats == []C12_TotalIsSum /\ [][C12_ReadOnly]_vars

C12_Witness ==
  /\ ret.op = "stats"
  /\ ret.stats.pending = 1
  /\ ret.stats.failed = 1
  /\ ret.stats.total = 2
  /\ \E t \in DOMAIN tasks : tasks[t].status = "cancelled"

\* C20: no task operation invoked on behalf of a user returns the record
\* of a task that another user submitted, or changes such a task.
C20_Viewed ==
  ret.record # NoTask => ret.record.submittedBy = ret.userId

C20_Changed ==
  \A p \in Procs :
    (CancelZRem(p) \/ CancelHSet(p)) =>
      \A t \in DOMAIN tasks :
        tasks[t].submittedBy # call[p].userId =>
          /\ tasks'[t] = tasks[t]
          /\ (t \in DOMAIN pending) = (t \in DOMAIN pending')

C20_OwnTasksOnly == []C20_Viewed /\ [][C20_Changed]_vars

\* A request of p enters getJWKS in this step.
CallsGetJWKS(p) == Free(p) /\ call'[p].op = "request"

\* C13: a getJWKS call that finds a cached key set younger than the
\* freshness window returns it without a fetch and leaves the cache and
\* its timestamp as they are; with no cache, or at an age equal to or above
\* the window, it issues a fetch.
C13_FreshServedFromCache ==
  [][\A p \in Procs :
       CallsGetJWKS(p) =>
         IF jwksCache \in KeySets
              /\ clock - jwksCacheTime < JWKS_CACHE_DURATION
         THEN /\ pc'[p] = "v_verify"
              /\ call'[p].jwks = jwksCache
              /\ UNCHANGED keys
         ELSE /\ pc'[p] = "k_fetch"
              /\ UNCHANGED keys]_vars

C13_Witness ==
  \E p, q \in Procs :
    /\ pc[p] = "v_verify"
    /\ call[p].now - jwksCacheTime = JWKS_CACHE_DURATION - 1
    /\ call[p].jwks = "k1"
    /\ issuerKeys = "k2"
    /\ pc[q] = "k_fetch"
    /\ call[q].now - jwksCacheTime = JWKS_CACHE_DURATION

\* C14: getJWKS throws only when a fetch fails while nothing is cached; a
\* fetch that fails while a key set is cached returns that key set and
\* leaves the cache and its timestamp unchanged; the cache, once filled, is
\* never cleared.
C14_StaleOnFailure ==
  [][/\ \A p \in Procs :
          getJWKSFetchFail(p) =>
            IF jwksCache \in KeySets
            THEN /\ pc'[p] = "v_verify"
                 /\ call'[p].jwks = jwksCache
                 /\ UNCHANGED keys
            ELSE /\ ret'.cause = "jwks"
                 /\ UNCHANGED keys
     /\ ret'.cause = "jwks" =>
          jwksCache = NoKeys /\ \E p \in Procs : getJWKSFetchFail(p)
     /\ jwksCache \in KeySets => jwksCache' \in KeySets]_vars

C14_Witness ==
  \E p \in Procs :
    /\ pc[p] = "v_verify"
    /\ ~issuerUp
    /\ call[p].jwks = "k1"
    /\ jwksCache = "k1"
    /\ issuerKeys = "k2"
    /\ call[p].now - jwksCacheTime > JWKS_CACHE_DURATION

\* C15: with the issuer unreachable, a request whose token is validly
\* signed by a key of the key set getJWKS returned is authenticated.
C15_VerifiedAgainstCache ==
  [][\A p \in Procs :
       (/\ verifyJanuaToken(p)
        /\ ~issuerUp
        /\ call[p].jwks \in KeySets
        /\ call[p].token.sig = call[p].jwks
        /\ call[p].token.valid)
         => ret'.authed]_vars

\* C16: a fetch that succeeds replaces the cache by the fetched key set and
\* leaves it with age zero at the moment the fetch completes.
C16_AgeZeroAtCompletion ==
  [][\A p \in Procs :
       getJWKSFetchOk(p) =>
         /\ jwksCache' = issuerKeys
         /\ clock - jwksCacheTime' = 0]_vars

\* C17: jwksCache is null exactly when jwksCacheTime is 0, and the cache
\* and its timestamp change only together, in the one step in which a
\* getJWKS call stores the key set it fetched and the time it read.
C17_NullIffZero == (jwksCache = NoKeys) <=> (jwksCacheTime = 0)

C17_WrittenTogether ==
  (jwksCache' # jwksCache \/ jwksCacheTime' # jwksCacheTime) =>
    \E p \in Procs :
      /\ getJWKSFetchOk(p)
      /\ jwksCache' = issuerKeys
      /\ jwksCacheTime' = call[p].now

C17_NeverHalfWritten == []C17_NullIffZero /\ [][C17_WrittenTogether]_vars

C17_Witness ==
  /\ jwksCache = "k1"
  /\ issuerKeys = "k2"
  /\ jwksCacheTime = JWKS_CACHE_DURATION
  /\ clock > jwksCacheTime + JWKS_CACHE_DURATION
  /\ \A p \in Procs : pc[p] = "v_verify" /\ call[p].now > jwksCacheTime

\* required is one of the space-separated tokens of the string str.
IsTokenOf(required, str) ==
  \E a, b \in 1..Len(str) :
    /\ SubSeq(str, a, b) = required
    /\ a = 1 \/ str[a - 1] = SP
    /\ b = Len(str) \/ str[b + 1] = SP

\* C18: for a request whose token verified, requireScope(c) lets the
\* handler run if and only if c is one of the space-separated tokens of the
\* scope claim; otherwise it answers 403 'Insufficient permissions' and the
\* handler does not run.  The step changes nothing but the request itself.
C18_ExactScopeToken ==
  [][\A p \in Procs :
       (verifyJanuaToken(p) /\ ret'.authed) =>
         LET tok == call[p].token
             c == RequiredScope(call[p].route)
         IN /\ IF tok.hasScope /\ IsTokenOf(c, tok.scope)
               THEN ret'.ran = call[p].route /\ ret'.http = 0
               ELSE /\ ret'.ran = "none"
                    /\ ret'.http = 403
                    /\ ret'.message = "Insufficient permissions"
            /\ UNCHANGED <<clock, store, holding, hist, keys, issuer,
                           fleet>>]_vars

C18_Witness ==
  /\ ret.authed
  /\ ret.route = "getTaskDetails"
  /\ ret.token.scope = <<"agent:view", "er">>
  /\ ret.http = 403
  /\ ret.message = "Insufficient permissions"

\* The token of the request just answered verifies against the issuer.
Verifiable(tok) ==
  tok.present /\ tok.valid /\ issuerUp /\ tok.sig = issuerKeys

\* C19: a service operation runs only for a request whose token verified
\* and whose scopes hold the scope of the route, agent:control for
\* submitTask and cancelTask and agent:view for every read; a request
\* without a token is answered 401 and one whose token does not verify 403,
\* and no operation runs for either.
C19_GatedRoutes ==
  /\ ret.ran # "none" =>
       /\ ret.ran = ret.route
       /\ ret.authed /\ Verifiable(ret.token)
       /\ ret.token.hasScope
  /\ ret.ran \in ControlOps => IsTokenOf(<<"agent:control">>, ret.token.scope)
  /\ ret.ran \in ViewOps => IsTokenOf(<<"agent:view">>, ret.token.scope)
  /\ (ret.op = "request" /\ ~ret.token.present) =>
       ret.http = 401 /\ ret.ran = "none"
  /\ (ret.op = "request" /\ ret.token.present /\ ~Verifiable(ret.token)) =>
       ret.http = 403 /\ ret.ran = "none"

C19_Witness ==
  /\ ret.ran = "cancelTask"
  /\ ret.token.scope = FullScope
  /\ issuerKeys = "k1"
  /\ jwksCache = "k1"

\* C28: the cache timestamp never decreases, so a refresh that started
\* earlier and completes later does not overwrite what a refresh that
\* started after it has stored.
C28_TimestampMonotone == [][jwksCacheTime' >= jwksCacheTime]_vars

\* C27: a cancelTask that succeeds removes exactly the target's entry from
\* the pending queue (the count drops by one) and changes only the
\* target's status and cancellation metadata: the lists, the target's
\* other fields, every other record and every other queue entry stay as
\* they are, and no record disappears.
C27_OnlyTheTarget ==
  [][\A p \in Procs :
       /\ CancelZRem(p) =>
            LET t == call[p].taskId
            IN /\ t \in DOMAIN pending
               /\ Cardinality(DOMAIN pending')
                    = Cardinality(DOMAIN pending) - 1
               /\ \A u \in DOMAIN pending \ {t} :
                    u \in DOMAIN pending' /\ pending'[u] = pending[u]
               /\ UNCHANGED <<tasks, active, completed, failed>>
       /\ CancelHSet(p) =>
            LET t == call[p].taskId
            IN /\ DOMAIN tasks' = DOMAIN tasks
               /\ \A u \in DOMAIN tasks \ {t} : tasks'[u] = tasks[u]
               /\ tasks'[t] = [tasks[t] EXCEPT
                                 !.status = tasks'[t].status,
                                 !.cancelledAt = tasks'[t].cancelledAt,
                                 !.cancelledBy = tasks'[t].cancelledBy]
               /\ tasks'[t].status = "cancelled"
               /\ UNCHANGED <<pending, active, completed, failed>>]_vars

\* The least integer that is not below a / b, for a >= 0 and b > 0.
CeilOf(a, b) == CHOOSE n \in 0..a : n * b >= a /\ (n = 0 \/ (n - 1) * b < a)

\* C26: the estimate returned with a submission is
\* ceil(d * 600 / max(1, ceil(d / 3))), d being the number of tasks in the
\* pending queue when the estimate is made.
C26_EstimateFormula ==
  [][\A p \in Procs :
       SubmitWait(p) =>
         LET d == Cardinality(DOMAIN pending)
             workers == IF CeilOf(d, 3) >= 1 THEN CeilOf(d, 3) ELSE 1
         IN ret'.wait = CeilOf(d * 600, workers)]_vars

C26_Witness ==
  /\ ret.op = "submit"
  /\ ret.err = "none"
  /\ Cardinality(DOMAIN pending) = 7
  /\ ret.wait = 1400

\* C30: the estimate is 0 exactly when the pending queue is empty and never
\* exceeds 1800 seconds.
C30_EstimateBounded ==
  (ret.op = "submit" /\ ret.err = "none") =>
    /\ ret.wait <= 1800
    /\ (ret.wait = 0) <=> (Cardinality(DOMAIN pending) = 0)

C30_Witness ==
  /\ ret.op = "submit"
  /\ ret.err = "none"
  /\ Cardinality(DOMAIN pending) = 6
  /\ ret.wait = 1800

\* C25: with no submit or cancel in flight, getUserTasks(u) returns the
\* stored tasks submitted by u and no others, each exactly once, newest
\* submission first.
C25_ListOfSubmitter ==
  ret.op = "list" =>
    /\ {ret.list[i] : i \in 1..Len(ret.list)}
         = {t \in DOMAIN tasks : tasks[t].submittedBy = ret.userId}
    /\ \A i, j \in 1..Len(ret.list) : i # j => ret.list[i] # ret.list[j]
    /\ \A i, j \in 1..Len(ret.list) :
         i < j => tasks[ret.list[i]].submittedAt >= tasks[ret.list[j]].submittedAt

\* The same without "each exactly once".
C25_MembersInOrder ==
  ret.op = "list" =>
    /\ {ret.list[i] : i \in 1..Len(ret.list)}
         = {t \in DOMAIN tasks : tasks[t].submittedBy = ret.userId}
    /\ \A i, j \in 1..Len(ret.list) :
         i < j => tasks[ret.list[i]].submittedAt >= tasks[ret.list[j]].submittedAt

\* The view a step of discoverAgents or getAgentDetails has just built.
BuiltView(p) ==
  IF pc'[p] = "idle" THEN ret'.views[Len(ret'.views)]
  ELSE call'[p].views[Len(call'[p].views)]

\* The self-reported part of a view of an agent without state.
UnknownAgent(v) ==
  /\ v.redis.agentStatus = "unknown"
  /\ v.redis.metrics.tasksCompleted = 0
  /\ v.redis.metrics.tasksFailed = 0
  /\ v.redis.lastHeartbeat = Undefined

\* C21: for a listed pod whose agent has no hash in Redis (missing or
\* empty), discoverAgents and getAgentDetails build a view with agentStatus
\* 'unknown', both counters 0 and no heartbeat, and do not throw.
C21_UnknownWhenNoState ==
  [][\A p \in Procs :
       /\ (EnrichRead(p)
             /\ HashOf(call[p].pods[Len(call[p].views) + 1].name) = EmptyHash)
            => UnknownAgent(BuiltView(p)) /\ ret'.err = "none"
       /\ (DetailsRead(p) /\ HashOf(call[p].pods[1].name) = EmptyHash)
            => UnknownAgent(BuiltView(p)) /\ ret'.err = "none"]_vars

C21_Witness ==
  /\ ret.op = "discoverAgents"
  /\ ret.err = "none"
  /\ Len(ret.views) = 2
  /\ HashOf("agent-1") = EmptyHash
  /\ HashOf("agent-2") # EmptyHash
  /\ UnknownAgent(ret.views[1])
  /\ ret.views[2].redis.agentStatus = "busy"

\* C22: discoverAgents throws, with no listing, when the Kubernetes query
\* fails; a state read that fails gives that pod the defaults and nothing
\* else: the call still returns one view per listed pod, in order, and a
\* pod whose read succeeded has the view its hash gives.
C22_Step ==
  \A p \in Procs :
    /\ discoverAgentPodsFail(p) => ret'.err # "none" /\ ret'.views = << >>
    /\ (pc[p] = "d_read" /\ call'[p] # call[p]) =>
         LET pod == call[p].pods[Len(call[p].views) + 1]
         IN /\ ret'.err = "none"
            /\ BuiltView(p).k8s.id = pod.name
            /\ \/ UnknownAgent(BuiltView(p))
               \/ BuiltView(p).redis =
                    RedisFields(getAgentStateFromRedis(HashOf(pod.name)))
    /\ EnrichReadFail(p) => UnknownAgent(BuiltView(p))
    /\ EnrichRead(p) =>
         BuiltView(p).redis =
           RedisFields(getAgentStateFromRedis(
             HashOf(call[p].pods[Len(call[p].views) + 1].name)))

C22_Listing ==
  (ret.op = "discoverAgents" /\ ret.err = "none") =>
    /\ Len(ret.views) = Len(ListedPods)
    /\ \A i \in 1..Len(ret.views) : ret.views[i].k8s.id = ListedPods[i].name

C22_DegradesPerWorker == []C22_Listing /\ [][C22_Step]_vars

C22_Witness ==
  /\ ret.op = "discoverAgents"
  /\ ret.err = "none"
  /\ Len(ret.views) = 2
  /\ HashOf("agent-1") # EmptyHash
  /\ HashOf("agent-1").status = "busy"
  /\ HashOf("agent-2") = HashOf("agent-1")
  /\ UnknownAgent(ret.views[1])
  /\ ret.views[2].redis.agentStatus = "busy"
  /\ ret.views[2].redis.metrics.tasksCompleted = 3

\* C23: in every view of a listing ready is true exactly when the pod's
\* condition list holds a Ready condition of status True; the Kubernetes
\* part of the view is a function of the pod alone and the self-reported
\* part a function of what the state read gave alone.
C23_Views ==
  (ret.op \in {"discoverAgents", "getAgentDetails"} /\ ret.err = "none") =>
    \A i \in 1..Len(ret.views) :
      LET v == ret.views[i]
          pod == podList[v.k8s.id]
      IN /\ v.k8s.ready <=>
              /\ pod.hasConditions
              /\ \E j \in 1..Len(pod.conditions) :
                   /\ pod.conditions[j].type = "Ready"
                   /\ pod.conditions[j].status = "True"
         /\ ret.op = "getAgentDetails" => v.k8s = DetailFields(pod)
         /\ ret.op = "discoverAgents" =>
              /\ v.k8s = PodFields(PodSummary(pod))
              /\ v.k8s.status = IF v.k8s.ready THEN "ready"
                                ELSE ToLowerCase(pod.phase)
              /\ v.k8s.podStatus = pod.phase
              /\ v.k8s.podIP = pod.podIP

C23_Step ==
  \A p \in Procs :
    (pc[p] \in {"d_read", "g_read"} /\ call'[p] # call[p]) =>
      \E st \in {NoState,
                 getAgentStateFromRedis(
                   HashOf(call[p].pods[Len(call[p].views) + 1].name))} :
        BuiltView(p).redis = RedisFields(st)

C23_Independent == []C23_Views /\ [][C23_Step]_vars

C23_Witness ==
  /\ ret.op = "discoverAgents"
  /\ ret.err = "none"
  /\ Len(ret.views) = 2
  /\ podList["agent-1"].phase = "Running"
  /\ podList["agent-1"].conditions =
       <<[type |-> "Ready", status |-> "False"],
         [type |-> "PodScheduled", status |-> "True"]>>
  /\ ~ret.views[1].k8s.ready
  /\ ret.views[1].k8s.status = "running"
  /\ ret.views[1].redis.agentStatus = "busy"
  /\ ret.views[2].k8s.ready
  /\ UnknownAgent(ret.views[2])

\* C24: no step of discoverAgents, getAgentDetails or getAgentLogs changes
\* the pods Kubernetes lists or an agent's hash in Redis.
C24_ReadsOnly ==
  [][(\E p \in Procs :
        \/ discoverAgentPods(p) \/ discoverAgentPodsFail(p)
        \/ EnrichRead(p) \/ EnrichReadFail(p)
        \/ DetailsRead(p) \/ DetailsReadFail(p)
        \/ \E n \in PodNames :
             DetailsPod(p, n) \/ DetailsPodFail(p, n) \/ getAgentLogs(p, n))
       => UNCHANGED <<podList, agentHash>>]_vars

C24_Witness ==
  /\ ret.op = "getAgentDetails"
  /\ ret.err = "none"
  /\ UnknownAgent(ret.views[1])
  /\ HashOf(ret.views[1].k8s.id) = EmptyHash
  /\ \E p \in Procs : pc[p] = "d_read" /\ Len(call[p].views) = 1

\* C29: what getAgentDetails returns for a pod agrees with the entry of
\* discoverAgents for the same pod and the same state in every field the
\* two have in common.
C29_SameAsListed ==
  [][\A p \in Procs :
       (pc[p] = "g_read" /\ call'[p] # call[p]) =>
         LET pod == call[p].pods[1]
             listed == View(PodFields(PodSummary(pod)), ret'.views[1].redis)
             detail == ret'.views[1]
         IN /\ detail.k8s.id = listed.k8s.id
            /\ detail.k8s.uid = listed.k8s.uid
            /\ detail.k8s.status = listed.k8s.status
            /\ detail.k8s.ready = listed.k8s.ready
            /\ detail.k8s.podIP = listed.k8s.podIP
            /\ detail.k8s.nodeName = listed.k8s.nodeName
            /\ detail.k8s.startTime = listed.k8s.startTime
            /\ detail.redis = listed.redis]_vars

====
